---- MODULE Spec2Model ----
(***************************************************************************)
(* Order fulfilment pipeline of the bookstore backend.                     *)
(*                                                                         *)
(* The store is one committed copy of the Book and Order rows.  Every      *)
(* thread (the HTTP request, the two queue consumers, one shipping thread  *)
(* per order) works through its own SQLAlchemy session: an attribute it    *)
(* has loaded keeps the value read at load time, db.session.commit()       *)
(* writes the rows whose attributes differ from the loaded values, and     *)
(* after a commit the object is expired, so the next attribute access      *)
(* reads the committed row again.  A read sees the last committed value.   *)
(* One action is one access to the store or to the broker, with the local  *)
(* computation that follows it.                                            *)
(*                                                                         *)
(* The broker connection stays open, each of the two queues has the one    *)
(* consumer start_background_tasks gives it, and a consumer is inside one  *)
(* callback at a time.                                                     *)
(*                                                                         *)
(* Spec is the pipeline without faults: every book an order names exists,  *)
(* every commit and every publish succeeds.  SpecIntake interleaves the    *)
(* request thread of place_order with the consumers and adds the status    *)
(* query.  SpecFaults adds failed commits, a failed publish, line items    *)
(* that name no Book row and messages that name no Order row.              *)
(***************************************************************************)
EXTENDS Integers, Sequences, FiniteSets

\* ------------------------------------------------------------------ bounds
\* The number of API requests (place_order, cancel_order) made in one run.
MaxRequests == 2
\* The longest item list of an order, the largest quantity of a line item and
\* the largest stock a book starts with.
MaxItems == 2
MaxQty == 1
MaxStock == 1
\* The faults (failed commits, failed publishes, messages and line items that
\* name no row) injected in one run.
MaxFaults == 1

Books == {"A", "B"}
Orders == 1..MaxRequests
Quantities == 1..MaxQty

\* ------------------------------------------------------------- OrderStatus
PENDING == "pending"
PROCESSING == "processing"
SHIPPED == "shipped"
DELIVERED == "delivered"
CANCELLED == "cancelled"
OrderStatus == {PENDING, PROCESSING, SHIPPED, DELIVERED, CANCELLED}
NoRow == "none"

\* An item of Order.items: {book_id, quantity}.
Items == [book_id : Books, quantity : Quantities]
ItemLists == UNION {[1..n -> Items] : n \in 1..MaxItems}

VARIABLES
    stock,      \* Book.stock, committed
    status,     \* Order.status, committed (NoRow: no such order)
    items,      \* Order.items, committed
    intake,     \* place_order requests, per order: where process_order is
    orderQ,     \* queue 'order_processing': order ids in publish order
    invQ,       \* queue 'inventory_update'
    op,         \* the order_processor callback: [pc, o]
    inv,        \* the inventory_processor callback: [pc, o, loaded]
    ship,       \* ship_order threads, per order: [pc, loaded, sent, final]
    cancel,     \* cancel_order requests, per order: [pc, loaded]
    events,     \* per order, the statuses emitted by send_order_status_update
    initStock,  \* history: the stock at start
    reserved,   \* history: per order, how update_inventory ended
    response,   \* history: per order, the last cancel_order response
    ncancel,    \* history: per order id, the cancel_order requests made
    got,        \* history: per order, the status get_order_status answered
    rejected,   \* history: the responses to the place_order requests refused
    unpublished,\* history: the orders whose publish_order failed
    stray       \* history: the messages published that name no Order row

vars == <<stock, status, items, intake, orderQ, invQ, op, inv, ship, cancel, events,
          initStock, reserved, response, ncancel, got, rejected, unpublished,
          stray>>

\* ------------------------------------------------------------ the session
\* db.session.commit() of an Order whose status was loaded as `loaded` and
\* assigned `new`: the unit of work emits UPDATE only for a changed attribute.
commit_status(cur, loaded, new) == IF new = loaded THEN cur ELSE new

\* send_order_status_update(order.user_id, order.id, order.status.value):
\* appends the status to the events of the order.
send_order_status_update(ev, o, s) == [ev EXCEPT ![o] = Append(@, s)]

IdleProcessor == [pc |-> "idle", o |-> 0]
IdleWorker == [pc |-> "idle", o |-> 0, loaded |-> NoRow]
NoShip == [pc |-> "none", loaded |-> NoRow, sent |-> FALSE, final |-> NoRow]
NoCancel == [pc |-> "idle", loaded |-> NoRow]

Init ==
    /\ stock \in [Books -> 0..MaxStock]
    /\ initStock = stock
    /\ status = [o \in Orders |-> NoRow]
    /\ items = [o \in Orders |-> <<>>]
    /\ intake = [o \in Orders |-> "none"]
    /\ orderQ = <<>>
    /\ invQ = <<>>
    /\ op = IdleProcessor
    /\ inv = IdleWorker
    /\ ship = [o \in Orders |-> NoShip]
    /\ cancel = [o \in Orders |-> NoCancel]
    /\ events = [o \in Orders |-> <<>>]
    /\ reserved = [o \in Orders |-> "none"]
    /\ response = [o \in Orders |-> "none"]
    /\ ncancel = [o \in Orders |-> 0]
    /\ got = [o \in Orders |-> "none"]
    /\ rejected = <<>>
    /\ unpublished = {}
    /\ stray = 0

\* Order.query.get(order_id) finds a row.
OrderExists(o) == o \in Orders /\ status[o] # NoRow

\* Book.query.get_or_404(item['book_id']) finds a row.
BookExists(item) == item.book_id \in Books

\* ---------------------------------------------------------------- queues
\* Faulty variant of the delivery: the newest message of the queue first.
delivery_newest(q) == Len(q)

\* The place in the queue of the message the broker hands to the consumer
\* next: basic_consume delivers a queue in publish order.
delivery(q) == 1

\* The message handed to the callback.
delivered(q) == q[delivery(q)]

\* Faulty variant of the acknowledgement: the message stays on the queue
\* until the callback has acknowledged it, which no callback does.
remaining_unacked(q) == q

\* The queue after the delivery: with auto_ack=True the broker drops the
\* message when it hands it over, whatever the callback does with it.
remaining(q) ==
    [i \in 1..(Len(q) - 1) |-> IF i < delivery(q) THEN q[i] ELSE q[i + 1]]

\* ------------------------------------------------------------- progress
InQueue(q, o) == \E i \in 1..Len(q) : q[i] = o

\* The pipeline run of order o has finished: place_order has returned, no
\* message for it is on a queue or in a consumer, its shipping thread has
\* ended and no cancellation of it is in progress.
Finished(o) ==
    /\ intake[o] = "returned"
    /\ ~InQueue(orderQ, o) /\ ~InQueue(invQ, o)
    /\ op.o # o /\ inv.o # o
    /\ ship[o].pc = "done"
    /\ cancel[o].pc = "idle"

\* ------------------------------------------------------------ Order Intake
RECURSIVE Sum(_, _)
Sum(f, S) ==
    IF S = {} THEN 0
    ELSE LET x == CHOOSE y \in S : TRUE IN f[x] + Sum(f, S \ {x})

\* The API requests made so far: the orders placed, the place_order requests
\* refused, the cancellations and the status queries.
Requests ==
    Cardinality({o \in Orders : status[o] # NoRow}) + Len(rejected)
    + Sum(ncancel, Orders) + Cardinality({o \in Orders : got[o] # "none"})

\* The id the store assigns to the next Order row: ids count up from 1.
NextOrderId == Cardinality({o \in Orders : status[o] # NoRow}) + 1

\* process_order up to the publish: the Order is added with status PENDING
\* and committed, then {order_id, items} is published to 'order_processing'
\* (building the message reads the expired Order again).
process_order_publish(its) ==
    LET o == NextOrderId IN
    /\ Requests < MaxRequests
    /\ status' = [status EXCEPT ![o] = PENDING]
    /\ items' = [items EXCEPT ![o] = its]
    /\ orderQ' = Append(orderQ, o)
    /\ intake' = [intake EXCEPT ![o] = "notify"]
    /\ UNCHANGED <<stock, invQ, op, inv, ship, cancel, events, initStock,
                   reserved, response, ncancel,
                   got, rejected, unpublished, stray>>

\* The initial status event, sent from the Order object as it was read for
\* the publish, and the return to place_order, which answers 201.
process_order_notify(o) ==
    /\ intake[o] = "notify"
    /\ events' = send_order_status_update(events, o, PENDING)
    /\ intake' = [intake EXCEPT ![o] = "returned"]
    /\ UNCHANGED <<stock, status, items, orderQ, invQ, op, inv, ship, cancel,
                   initStock, reserved, response, ncancel,
                   got, rejected, unpublished, stray>>

\* process_order when the request thread runs from the commit to the return
\* before any consumer takes the message: both parts in one step.
process_order(its) ==
    LET o == NextOrderId IN
    /\ Requests < MaxRequests
    /\ status' = [status EXCEPT ![o] = PENDING]
    /\ items' = [items EXCEPT ![o] = its]
    /\ orderQ' = Append(orderQ, o)
    /\ events' = send_order_status_update(events, o, PENDING)
    /\ intake' = [intake EXCEPT ![o] = "returned"]
    /\ UNCHANGED <<stock, invQ, op, inv, ship, cancel, initStock, reserved,
                   response, ncancel,
                   got, rejected, unpublished, stray>>

place_order == \E its \in ItemLists : process_order(its)

\* --------------------------------------------------------- Order Processor
\* order_processor up to its commit: the message is taken from the queue
\* (auto_ack), the Order is loaded, order.status = OrderStatus.PROCESSING,
\* db.session.commit().  Nothing is read between the load and the commit, and
\* the order is never loaded as PROCESSING here, so the two are one step.
order_processor ==
    /\ op.pc = "idle"
    /\ orderQ # <<>>
    /\ OrderExists(delivered(orderQ))
    /\ LET o == delivered(orderQ) IN
       /\ status' = [status EXCEPT ![o] = commit_status(@, status[o], PROCESSING)]
       /\ op' = [pc |-> "notify", o |-> o]
    /\ orderQ' = remaining(orderQ)
    /\ UNCHANGED <<stock, items, intake, invQ, inv, ship, cancel, events,
                   initStock, reserved, response, ncancel,
                   got, rejected, unpublished, stray>>

\* Faulty variant of the publish: the inventory update is sent twice.
publish_inventory_update_twice(q, o) == Append(Append(q, o), o)

\* rabbitmq.publish_inventory_update: one basic_publish of {order_id, items}
\* to 'inventory_update'.
publish_inventory_update(q, o) == Append(q, o)

\* The expired Order is read again for the status event, the inventory
\* update is published and initiate_shipping starts the ship_order thread.
order_processor_notify ==
    /\ op.pc = "notify"
    /\ events' = send_order_status_update(events, op.o, status[op.o])
    /\ invQ' = publish_inventory_update(invQ, op.o)
    /\ ship' = [ship EXCEPT ![op.o] = [NoShip EXCEPT !.pc = "start"]]
    /\ op' = IdleProcessor
    /\ UNCHANGED <<stock, status, items, intake, orderQ, inv, cancel, initStock,
                   reserved, response, ncancel,
                   got, rejected, unpublished, stray>>

\* ------------------------------------------- Inventory Reservation Manager
\* Faulty variant of the comparison: off by one, a unit short still passes.
insufficient_stock_off_by_one(stk, item) == stk[item.book_id] + 1 < item.quantity

\* Faulty variant of the comparison: the quantity is held against the stock
\* of every book, not only of the book of the line.
insufficient_stock_any_book(stk, item) == \E b \in Books : stk[b] < item.quantity

\* `book.stock < item['quantity']` for one line item.
insufficient_stock(stk, item) == stk[item.book_id] < item.quantity

\* The first loop of update_inventory: every line item is compared, on its
\* own, with the stock of its book; nothing is changed.
validation_passes(stk, its) ==
    \A i \in 1..Len(its) : ~insufficient_stock(stk, its[i])

\* Faulty variant of the deduction: a book is debited for its first line
\* item only.
deduct_once(stk, its) ==
    [b \in Books |->
        IF \E i \in 1..Len(its) : its[i].book_id = b
        THEN LET i == CHOOSE j \in 1..Len(its) :
                        /\ its[j].book_id = b
                        /\ \A k \in 1..(j - 1) : its[k].book_id # b
             IN stk[b] - its[i].quantity
        ELSE stk[b]]

\* The second loop: `book.stock -= item['quantity']` item after item, on the
\* Book objects of the session.
RECURSIVE deduct(_, _)
deduct(stk, its) ==
    IF its = <<>> THEN stk
    ELSE deduct([stk EXCEPT ![Head(its).book_id] = @ - Head(its).quantity],
                Tail(its))

\* inventory_processor: the message is taken from the queue (auto_ack) and
\* update_inventory loads the Order.
inventory_processor_load ==
    /\ inv.pc = "idle"
    /\ invQ # <<>>
    /\ OrderExists(delivered(invQ))
    /\ LET o == delivered(invQ) IN
       inv' = [pc |-> "reserve", o |-> o, loaded |-> status[o]]
    /\ invQ' = remaining(invQ)
    /\ UNCHANGED <<stock, status, items, intake, orderQ, op, ship, cancel, events,
                   initStock, reserved, response, ncancel,
                   got, rejected, unpublished, stray>>

\* update_inventory, the try block up to its commit: validation, then either
\* the deduction with status PROCESSING, or InsufficientStockError with
\* status CANCELLED; one commit in both branches.
update_inventory ==
    /\ inv.pc = "reserve"
    /\ \A i \in 1..Len(items[inv.o]) : BookExists(items[inv.o][i])
    /\ LET o == inv.o IN
       IF validation_passes(stock, items[o])
       THEN /\ stock' = deduct(stock, items[o])
            /\ status' = [status EXCEPT ![o] = commit_status(@, inv.loaded, PROCESSING)]
            /\ reserved' = [reserved EXCEPT ![o] = "reserved"]
       ELSE /\ stock' = stock
            /\ status' = [status EXCEPT ![o] = commit_status(@, inv.loaded, CANCELLED)]
            /\ reserved' = [reserved EXCEPT ![o] = "insufficient"]
    /\ inv' = [inv EXCEPT !.pc = "notify"]
    /\ UNCHANGED <<items, intake, orderQ, invQ, op, ship, cancel, events, initStock,
                   response, ncancel,
                   got, rejected, unpublished, stray>>

\* send_order_status_update after the commit: the expired Order is read again.
update_inventory_notify ==
    /\ inv.pc = "notify"
    /\ events' = send_order_status_update(events, inv.o, status[inv.o])
    /\ inv' = IdleWorker
    /\ UNCHANGED <<stock, status, items, intake, orderQ, invQ, op, ship, cancel,
                   initStock, reserved, response, ncancel,
                   got, rejected, unpublished, stray>>

\* ------------------------------------------------------ Shipping Coordinator
\* `send_book_email == True` compares the function itself with True, not
\* what the call returned: the comparison is false whatever was sent.
send_book_email_eq_True(sent) == FALSE

\* The status ship_order assigns after SHIPPED.
final_status(sent) ==
    IF send_book_email_eq_True(sent) THEN DELIVERED ELSE CANCELLED

\* ship_order up to its first commit: the Order, its Book and its User are
\* loaded, the book is mailed (send_book_email returns True or False), then
\* order.status = OrderStatus.SHIPPED; db.session.commit().
ship_order_shipped(o) ==
    /\ ship[o].pc = "start"
    /\ status' = [status EXCEPT ![o] = commit_status(@, status[o], SHIPPED)]
    /\ \E sent \in BOOLEAN :
         ship' = [ship EXCEPT ![o] = [pc |-> "notify", loaded |-> SHIPPED,
                                      sent |-> sent, final |-> NoRow]]
    /\ UNCHANGED <<stock, items, intake, orderQ, invQ, op, inv, cancel, events,
                   initStock, reserved, response, ncancel,
                   got, rejected, unpublished, stray>>

\* The status event after SHIPPED (the expired Order is read again), then
\* the branch on the delivery assigns the final status.
ship_order_notify(o) ==
    /\ ship[o].pc = "notify"
    /\ events' = send_order_status_update(events, o, status[o])
    /\ ship' = [ship EXCEPT ![o].pc = "final", ![o].loaded = status[o],
                            ![o].final = final_status(ship[o].sent)]
    /\ UNCHANGED <<stock, status, items, intake, orderQ, invQ, op, inv, cancel,
                   initStock, reserved, response, ncancel,
                   got, rejected, unpublished, stray>>

\* Faulty variant of the final commit of ship_order: a run that ends
\* CANCELLED gives the quantities of the order back to its books.
ship_order_restocks(stk, its, final) ==
    [b \in Books |->
        IF final = CANCELLED
        THEN stk[b] + Sum([i \in 1..Len(its) |->
                              IF its[i].book_id = b THEN its[i].quantity ELSE 0],
                          1..Len(its))
        ELSE stk[b]]

\* The Book rows after the final commit of ship_order: the Book of the order
\* is loaded for its pdf_path and title only, nothing is assigned to it in
\* either branch.
ship_order_books(stk, its, final) == stk

\* db.session.commit() of the final status.
ship_order_final(o) ==
    /\ ship[o].pc = "final"
    /\ status' = [status EXCEPT ![o] = commit_status(@, ship[o].loaded, ship[o].final)]
    /\ stock' = ship_order_books(stock, items[o], ship[o].final)
    /\ ship' = [ship EXCEPT ![o].pc = "notify_final"]
    /\ UNCHANGED <<items, intake, orderQ, invQ, op, inv, cancel, events,
                   initStock, reserved, response, ncancel,
                   got, rejected, unpublished, stray>>

\* The last status event; the thread ends.
ship_order_done(o) ==
    /\ ship[o].pc = "notify_final"
    /\ events' = send_order_status_update(events, o, status[o])
    /\ ship' = [ship EXCEPT ![o].pc = "done"]
    /\ UNCHANGED <<stock, status, items, intake, orderQ, invQ, op, inv, cancel,
                   initStock, reserved, response, ncancel,
                   got, rejected, unpublished, stray>>

ship_order ==
    \E o \in Orders :
        \/ ship_order_shipped(o)
        \/ ship_order_notify(o)
        \/ ship_order_final(o)
        \/ ship_order_done(o)

\* ------------------------------------------------------------ cancel_order
\* Faulty variant of the guard: a shipped order may still be cancelled.
can_cancel_shipped(s) == s \in {PENDING, PROCESSING, SHIPPED}

\* `order.status in [OrderStatus.PENDING, OrderStatus.PROCESSING]`
can_cancel(s) == s \in {PENDING, PROCESSING}

\* cancel_order up to its commit: get_or_404, then the guard on the status.
\* A refused request answers at once (404 or 400).
cancel_order_load(o) ==
    /\ cancel[o].pc = "idle"
    /\ Requests < MaxRequests
    /\ ncancel' = [ncancel EXCEPT ![o] = @ + 1]
    /\ IF status[o] = NoRow
       THEN /\ response' = [response EXCEPT ![o] = "404"]
            /\ cancel' = cancel
       ELSE IF can_cancel(status[o])
       THEN /\ cancel' = [cancel EXCEPT ![o] = [pc |-> "commit", loaded |-> status[o]]]
            /\ response' = response
       ELSE /\ response' = [response EXCEPT ![o] = "400"]
            /\ cancel' = cancel
    /\ UNCHANGED <<stock, status, items, intake, orderQ, invQ, op, inv, ship, events,
                   initStock, reserved,
                   got, rejected, unpublished, stray>>

\* Faulty variant of the commit of cancel_order: the quantities of the
\* cancelled order are given back to its books.
cancel_order_restocks(stk, its) ==
    [b \in Books |->
        stk[b] + Sum([i \in 1..Len(its) |->
                         IF its[i].book_id = b THEN its[i].quantity ELSE 0],
                     1..Len(its))]

\* The Book rows after the commit of cancel_order: its session holds the
\* Order only, no Book is loaded or assigned.
cancel_order_books(stk, its) == stk

\* order.status = OrderStatus.CANCELLED; db.session.commit()
cancel_order_commit(o) ==
    /\ cancel[o].pc = "commit"
    /\ status' = [status EXCEPT ![o] = commit_status(@, cancel[o].loaded, CANCELLED)]
    /\ stock' = cancel_order_books(stock, items[o])
    /\ cancel' = [cancel EXCEPT ![o].pc = "notify"]
    /\ UNCHANGED <<items, intake, orderQ, invQ, op, inv, ship, events,
                   initStock, reserved, response, ncancel,
                   got, rejected, unpublished, stray>>

\* The status event (the expired Order is read again) and the 200 response.
cancel_order_notify(o) ==
    /\ cancel[o].pc = "notify"
    /\ events' = send_order_status_update(events, o, status[o])
    /\ response' = [response EXCEPT ![o] = "200"]
    /\ cancel' = [cancel EXCEPT ![o] = NoCancel]
    /\ UNCHANGED <<stock, status, items, intake, orderQ, invQ, op, inv, ship,
                   initStock, reserved, ncancel,
                   got, rejected, unpublished, stray>>

cancel_order ==
    \E o \in Orders :
        \/ cancel_order_load(o)
        \/ cancel_order_commit(o)
        \/ cancel_order_notify(o)

Next ==
    \/ place_order
    \/ order_processor
    \/ order_processor_notify
    \/ inventory_processor_load
    \/ update_inventory
    \/ update_inventory_notify
    \/ ship_order
    \/ cancel_order

Spec == Init /\ [][Next]_vars

\* The pipeline with the request thread of place_order interleaved with the
\* consumers: the message can be handled before process_order has emitted
\* the initial event and returned.  Orders are placed one after the other,
\* each when the runs of the earlier ones have finished.
place_order_interleaved ==
    \/ /\ \A o \in Orders : status[o] # NoRow => Finished(o)
       /\ \E its \in ItemLists : process_order_publish(its)
    \/ \E o \in Orders : process_order_notify(o)

\* get_order_status: get_or_404, then the status of the row as committed at
\* that moment.  One query per order is followed.
get_order_status(o) ==
    /\ Requests < MaxRequests
    /\ got[o] = "none"
    /\ got' = [got EXCEPT ![o] = IF OrderExists(o) THEN status[o] ELSE "404"]
    /\ UNCHANGED <<stock, status, items, intake, orderQ, invQ, op, inv, ship,
                   cancel, events, initStock, reserved, response, ncancel,
                   rejected, unpublished, stray>>

NextIntake ==
    \/ place_order_interleaved
    \/ \E o \in Orders : get_order_status(o)
    \/ order_processor
    \/ order_processor_notify
    \/ inventory_processor_load
    \/ update_inventory
    \/ update_inventory_notify
    \/ ship_order
    \/ cancel_order

SpecIntake == Init /\ [][NextIntake]_vars

\* ------------------------------------------------------------------ faults
\* The pipeline when the store, the broker or a message fails.  The faults of
\* one run are bounded by MaxFaults.

\* A book id no Book row has, and an order id no Order row has.
NoBook == "X"
StrayId == MaxRequests + 1

\* Item lists with at least one line that names a book that does not exist.
AnyItems == [book_id : Books \cup {NoBook}, quantity : Quantities]
MissingBookLists ==
    {its \in UNION {[1..n -> AnyItems] : n \in 1..MaxItems} :
        \E i \in 1..Len(its) : ~BookExists(its[i])}

\* The faults so far.
Faults ==
    Len(rejected) + Cardinality(unpublished) + stray
    + Cardinality({o \in Orders : reserved[o] = "commit_failed"})
    + Cardinality({o \in Orders :
            \E i \in 1..Len(items[o]) : ~BookExists(items[o][i])})
    + (IF op.pc = "dead" THEN 1 ELSE 0) + (IF inv.pc = "dead" THEN 1 ELSE 0)

\* A message that names an order id without a row reaches a queue (a
\* redelivery after the row was removed, or a foreign publisher).
deliver_stray ==
    /\ Faults < MaxFaults
    /\ stray' = stray + 1
    /\ \/ orderQ' = Append(orderQ, StrayId) /\ invQ' = invQ
       \/ invQ' = Append(invQ, StrayId) /\ orderQ' = orderQ
    /\ UNCHANGED <<stock, status, items, intake, op, inv, ship, cancel, events,
                   initStock, reserved, response, ncancel, got, rejected,
                   unpublished>>

\* order_processor on a message whose order is absent: Order.query.get
\* returns None, `order.status = ...` raises AttributeError, nothing in
\* order_processor catches it; it leaves the callback and start_consuming,
\* process_orders logs it and returns: the consumer thread ends.
order_processor_missing_order ==
    /\ op.pc = "idle"
    /\ orderQ # <<>>
    /\ ~OrderExists(delivered(orderQ))
    /\ op' = [pc |-> "dead", o |-> delivered(orderQ)]
    /\ orderQ' = remaining(orderQ)
    /\ UNCHANGED <<stock, status, items, intake, invQ, inv, ship, cancel, events,
                   initStock, reserved, response, ncancel, got, rejected,
                   unpublished, stray>>

\* update_inventory on a message whose order is absent: whichever way the
\* try block ends (`order.status = ...` on None after the deductions in the
\* session, InsufficientStockError, or NotFound of a book), the except
\* clause evaluates order.id on None; that AttributeError leaves the
\* callback and ends the consumer thread.  Nothing was committed.
update_inventory_missing_order ==
    /\ inv.pc = "idle"
    /\ invQ # <<>>
    /\ ~OrderExists(delivered(invQ))
    /\ inv' = [pc |-> "dead", o |-> delivered(invQ), loaded |-> NoRow]
    /\ invQ' = remaining(invQ)
    /\ UNCHANGED <<stock, status, items, intake, orderQ, op, ship, cancel, events,
                   initStock, reserved, response, ncancel, got, rejected,
                   unpublished, stray>>

\* Faulty variant of the commit in order_processor: its failure is caught
\* and the callback goes on.
commit_swallowed(failed) == FALSE

\* db.session.commit() at order_processing.py:59 stands outside any try: a
\* failure is raised out of order_processor.
commit_raises(failed) == failed

\* order_processor when db.session.commit() raises: the exception leaves
\* the callback as above; no event, no publish, no shipping.  (Had the
\* failure been caught, the callback would have gone on to the event.)
order_processor_commit_fails ==
    /\ op.pc = "idle"
    /\ orderQ # <<>>
    /\ OrderExists(delivered(orderQ))
    /\ Faults < MaxFaults
    /\ op' = [pc |-> IF commit_raises(TRUE) THEN "dead" ELSE "notify",
              o |-> delivered(orderQ)]
    /\ orderQ' = remaining(orderQ)
    /\ UNCHANGED <<stock, status, items, intake, invQ, inv, ship, cancel, events,
                   initStock, reserved, response, ncancel, got, rejected,
                   unpublished, stray>>

\* update_inventory when the commit of the deductions and the status
\* raises: db.session.rollback(), a log line, and `return jsonify(...), 500`.
\* The status is not assigned again and no event is sent.
update_inventory_commit_fails ==
    /\ inv.pc = "reserve"
    /\ \A i \in 1..Len(items[inv.o]) : BookExists(items[inv.o][i])
    /\ validation_passes(stock, items[inv.o])
    /\ Faults < MaxFaults
    /\ reserved' = [reserved EXCEPT ![inv.o] = "commit_failed"]
    /\ inv' = IdleWorker
    /\ UNCHANGED <<stock, status, items, intake, orderQ, invQ, op, ship, cancel,
                   events, initStock, response, ncancel, got, rejected,
                   unpublished, stray>>

\* update_inventory when the commit of CANCELLED in the except clause of
\* InsufficientStockError raises: the exception leaves the callback.
update_inventory_cancel_commit_fails ==
    /\ inv.pc = "reserve"
    /\ \A i \in 1..Len(items[inv.o]) : BookExists(items[inv.o][i])
    /\ ~validation_passes(stock, items[inv.o])
    /\ Faults < MaxFaults
    /\ reserved' = [reserved EXCEPT ![inv.o] = "insufficient"]
    /\ inv' = [inv EXCEPT !.pc = "dead"]
    /\ UNCHANGED <<stock, status, items, intake, orderQ, invQ, op, ship, cancel,
                   events, initStock, response, ncancel, got, rejected,
                   unpublished, stray>>

\* place_order with an item list that names a book without a row: neither
\* place_order nor process_order looks at the items.
place_order_missing_book ==
    /\ Faults < MaxFaults
    /\ \E its \in MissingBookLists : process_order(its)

\* The line item at which the first loop of update_inventory raises: the
\* first whose book is absent (get_or_404 raises NotFound) or short.
first_failing(stk, its) ==
    CHOOSE i \in 1..Len(its) :
        /\ ~BookExists(its[i]) \/ insufficient_stock(stk, its[i])
        /\ \A j \in 1..(i - 1) :
             BookExists(its[j]) /\ ~insufficient_stock(stk, its[j])

\* update_inventory on items with an absent book: the first loop raises at
\* first_failing, before any deduction; NotFound is caught by `except
\* Exception`, InsufficientStockError by its own clause, and both assign
\* CANCELLED and commit.
update_inventory_missing_book ==
    /\ inv.pc = "reserve"
    /\ \E i \in 1..Len(items[inv.o]) : ~BookExists(items[inv.o][i])
    /\ LET o == inv.o
           k == first_failing(stock, items[o])
       IN /\ status' = [status EXCEPT ![o] = commit_status(@, inv.loaded, CANCELLED)]
          /\ reserved' = [reserved EXCEPT ![o] =
                 IF BookExists(items[o][k]) THEN "insufficient" ELSE "not_found"]
    /\ inv' = [inv EXCEPT !.pc = "notify"]
    /\ UNCHANGED <<stock, items, intake, orderQ, invQ, op, ship, cancel, events,
                   initStock, response, ncancel, got, rejected, unpublished,
                   stray>>

\* Faulty variant of the response: a refused order is answered like a placed
\* one.
place_order_response_created(order) == "201"

\* place_order after process_order returned: `if order is None` answers 400,
\* an order answers 201.
place_order_response(order) == IF order = NoRow THEN "400" ELSE "201"

\* process_order when db.session.commit() of the new Order raises: the except
\* clause logs and returns None, before the publish and the event.
process_order_commit_fails ==
    /\ Requests < MaxRequests
    /\ Faults < MaxFaults
    /\ rejected' = Append(rejected, place_order_response(NoRow))
    /\ UNCHANGED <<stock, status, items, intake, orderQ, invQ, op, inv, ship,
                   cancel, events, initStock, reserved, response, ncancel, got,
                   unpublished, stray>>

\* Faulty variant of publish_order: the failure of basic_publish is raised
\* to the caller.
publish_order_reraises(failed) == failed

\* publish_order wraps basic_publish in try/except Exception and logs:
\* nothing is raised to process_order, whether the publish failed or not.
publish_order_raises(failed) == FALSE

\* process_order when basic_publish fails after the commit: the Order stays
\* committed as PENDING and no message is queued.  As publish_order raises
\* nothing, process_order goes on to the status event and returns the order;
\* had it raised, place_order would have answered 500 without the event.
process_order_publish_fails(its) ==
    LET o == NextOrderId IN
    /\ Requests < MaxRequests
    /\ Faults < MaxFaults
    /\ status' = [status EXCEPT ![o] = PENDING]
    /\ items' = [items EXCEPT ![o] = its]
    /\ unpublished' = unpublished \cup {o}
    /\ IF publish_order_raises(TRUE)
       THEN /\ events' = events
            /\ intake' = [intake EXCEPT ![o] = "error"]
       ELSE /\ events' = send_order_status_update(events, o, PENDING)
            /\ intake' = [intake EXCEPT ![o] = "returned"]
    /\ UNCHANGED <<stock, orderQ, invQ, op, inv, ship, cancel, initStock,
                   reserved, response, ncancel, got, rejected, stray>>

place_order_unpublished == \E its \in ItemLists : process_order_publish_fails(its)

NextFaults ==
    \/ place_order
    \/ order_processor
    \/ order_processor_notify
    \/ inventory_processor_load
    \/ update_inventory
    \/ update_inventory_notify
    \/ ship_order
    \/ cancel_order
    \/ deliver_stray
    \/ order_processor_missing_order
    \/ update_inventory_missing_order
    \/ order_processor_commit_fails
    \/ update_inventory_commit_fails
    \/ update_inventory_cancel_commit_fails
    \/ place_order_missing_book
    \/ update_inventory_missing_book
    \/ process_order_commit_fails
    \/ place_order_unpublished

SpecFaults == Init /\ [][NextFaults]_vars

\* ------------------------------------------------- unchecked quantities
\* place_order and process_order store the item list as it came in the
\* request: a quantity may be zero or negative.  One such order is followed.
AnyQuantities == (0 - MaxQty)..MaxQty
AnyQuantityItems == [book_id : Books, quantity : AnyQuantities]
AnyQuantityLists == UNION {[1..n -> AnyQuantityItems] : n \in 1..MaxItems}

place_order_any_quantity ==
    /\ NextOrderId = 1
    /\ \E its \in AnyQuantityLists : process_order(its)

NextAnyQuantity ==
    \/ place_order_any_quantity
    \/ order_processor
    \/ order_processor_notify
    \/ inventory_processor_load
    \/ update_inventory
    \/ update_inventory_notify
    \/ ship_order
    \/ cancel_order

SpecAnyQuantity == Init /\ [][NextAnyQuantity]_vars

\* ============================================================== properties
\* The summed quantity an item list asks of book b.
RECURSIVE Demand(_, _)
Demand(its, b) ==
    IF its = <<>> THEN 0
    ELSE (IF Head(its).book_id = b THEN Head(its).quantity ELSE 0)
         + Demand(Tail(its), b)

\* Every line item, on its own, is covered by the stock stk.
LinesSatisfiable(its, stk) ==
    \A i \in 1..Len(its) : its[i].quantity <= stk[its[i].book_id]

\* The step of the Inventory Reservation Manager that decides the
\* reservation of order o.
ReservationStep(o) == inv.pc = "reserve" /\ inv.o = o /\ inv'.pc = "notify"

\* C1: in every reachable state every Book's stock is >= 0.
C1_StockNonNegative == \A b \in Books : stock[b] >= 0

\* C2: all-or-nothing reservation: when a line item of the handled message
\* cannot be satisfied (stock < quantity), the handling changes no book's
\* stock and the order's status is CANCELLED afterwards.
C2_AllOrNothing ==
    [][\A o \in Orders :
         (ReservationStep(o) /\ ~LinesSatisfiable(items[o], stock))
         => (stock' = stock /\ status'[o] = CANCELLED)]_vars

\* C3: inventory aggregation: an order whose summed demand for some book
\* exceeds the stock of that book is rejected as insufficient, with no
\* stock deducted, even when every single line item is within the stock.
C3_Aggregation ==
    [][\A o \in Orders :
         (ReservationStep(o) /\ \E b \in Books : Demand(items[o], b) > stock[b])
         => (stock' = stock /\ reserved'[o] = "insufficient")]_vars

\* Orders o1 and o2 each ask for one unit of book b, of which one unit was
\* in stock, and no other order asks for b.
Competing(b, o1, o2) ==
    /\ o1 # o2
    /\ initStock[b] = 1
    /\ items[o1] = <<[book_id |-> b, quantity |-> 1]>>
    /\ items[o2] = <<[book_id |-> b, quantity |-> 1]>>
    /\ \A o3 \in Orders \ {o1, o2} :
         \A i \in 1..Len(items[o3]) : items[o3][i].book_id # b

\* C4: of two orders competing for the single remaining unit of a book,
\* the stock is never overdrawn, the unit goes to at most one of them, and
\* once both reservations are decided exactly one has succeeded (stock 0)
\* while the other has met insufficient stock and ends CANCELLED.
C4_SingleUnit ==
    \A b \in Books : \A o1, o2 \in Orders :
        Competing(b, o1, o2) =>
            /\ stock[b] >= 0
            /\ stock[b] = 1 - Cardinality({o \in {o1, o2} : reserved[o] = "reserved"})
            /\ (reserved[o1] # "none" /\ reserved[o2] # "none")
               => /\ stock[b] = 0
                  /\ {reserved[o1], reserved[o2]} = {"reserved", "insufficient"}
            /\ \A o \in {o1, o2} :
                 (reserved[o] = "insufficient" /\ Finished(o))
                 => status[o] = CANCELLED

C4_Witness ==
    \E b \in Books : \E o1, o2 \in Orders :
        /\ Competing(b, o1, o2)
        /\ reserved[o1] = "reserved"
        /\ reserved[o2] = "insufficient"
        /\ Finished(o2)
        /\ stock[b] = 0

\* C5: a committed status of CANCELLED or DELIVERED is terminal: no step
\* of any component changes it.
C5_TerminalStays ==
    [][\A o \in Orders :
         status[o] \in {CANCELLED, DELIVERED} => status'[o] = status[o]]_vars

\* C6: once the pipeline run of an order has finished, its status is
\* DELIVERED or CANCELLED, never PROCESSING or SHIPPED.
C6_EndsTerminal ==
    \A o \in Orders :
        (Finished(o) /\ reserved[o] # "none")
        => status[o] \in {DELIVERED, CANCELLED}

\* C7: successful path: when every line item of an order is covered by the
\* stock and no other order has reserved, then after the order's full
\* pipeline run its reservation has succeeded and each book's stock is the
\* initial stock minus the quantity ordered of it, whatever the delivery
\* returned.
C7_SuccessStock ==
    \A o \in Orders :
        ( /\ Finished(o)
          /\ reserved[o] # "none"
          /\ LinesSatisfiable(items[o], initStock)
          /\ \A o2 \in Orders \ {o} : reserved[o2] # "reserved" )
        => /\ reserved[o] = "reserved"
           /\ \A b \in Books : stock[b] = initStock[b] - Demand(items[o], b)

C7_Witness ==
    \E o \in Orders :
        /\ Finished(o)
        /\ LinesSatisfiable(items[o], initStock)
        /\ reserved[o] = "reserved"
        /\ ~ship[o].sent
        /\ \E b \in Books : stock[b] = initStock[b] - 1

\* C8: the final status the Shipping Coordinator sets reflects the
\* delivery: DELIVERED when the delivery returned success, CANCELLED when it
\* returned failure.
C8_FinalReflectsDelivery ==
    \A o \in Orders :
        ship[o].final # NoRow
        => ship[o].final = (IF ship[o].sent THEN DELIVERED ELSE CANCELLED)

\* C9: cancel_order on an order whose status is neither PENDING nor
\* PROCESSING answers with an error, leaves every order's status unchanged,
\* emits no status event and starts no commit.
C9_CancelRejected ==
    [][\A o \in Orders :
         ( /\ ncancel'[o] = ncancel[o] + 1
           /\ status[o] \in OrderStatus \ {PENDING, PROCESSING} )
         => /\ response'[o] = "400"
            /\ status' = status
            /\ events' = events
            /\ cancel'[o].pc = "idle"]_vars

C9_Witness ==
    \E o \in Orders :
        /\ ncancel[o] = 1
        /\ response[o] = "400"
        /\ status[o] = SHIPPED
        /\ cancel[o].pc = "idle"

\* C10: cancel_order on a PENDING or PROCESSING order commits CANCELLED
\* without publishing to a queue and emits exactly one status event, which
\* carries CANCELLED.
C10_CancelAccepted ==
    [][\A o \in Orders :
         /\ cancel[o].pc = "commit" /\ cancel'[o].pc = "notify"
            => (status'[o] = CANCELLED /\ orderQ' = orderQ /\ invQ' = invQ
                /\ events' = events)
         /\ cancel[o].pc = "notify" /\ cancel'[o].pc = "idle"
            => (events'[o] = Append(events[o], CANCELLED)
                /\ orderQ' = orderQ /\ invQ' = invQ)]_vars

\* C11: a consumer that takes a message whose order does not exist drops
\* it: its loop goes on (no exception leaves the callback), no book's stock
\* changes and no message is published.
C11_NotFoundDropped ==
    [][/\ (orderQ # <<>> /\ orderQ' = Tail(orderQ) /\ ~OrderExists(Head(orderQ)))
          => (op'.pc = "idle" /\ stock' = stock /\ invQ' = invQ)
       /\ (invQ # <<>> /\ invQ' = Tail(invQ) /\ ~OrderExists(Head(invQ)))
          => (inv'.pc = "idle" /\ stock' = stock /\ orderQ' = orderQ)]_vars

\* C12: get_status called once place_order has returned for the new order,
\* with no other request in between, answers PENDING, however the Order
\* Processor is scheduled.
C12_StatusAfterPlace ==
    [][\A o \in Orders :
         ( /\ got[o] = "none" /\ got'[o] # "none"
           /\ intake[o] = "returned"
           /\ \A o2 \in Orders : ncancel[o2] = 0 )
         => got'[o] = PENDING]_vars

\* C13: a failure while handling one message never stops a consumer: no
\* message waits on a queue whose consumer loop has ended.
C13_WorkersGoOn ==
    /\ orderQ # <<>> => op.pc # "dead"
    /\ invQ # <<>> => inv.pc # "dead"

\* The books an item list names, and the orders placed so far.
BooksOf(its) == {its[i].book_id : i \in 1..Len(its)}
Placed == {o \in Orders : status[o] # NoRow}

\* The orders placed ask for pairwise disjoint sets of books and the stock
\* at start covers the summed demand of each of them.
DisjointSatisfiable ==
    /\ \A o1, o2 \in Placed : o1 # o2 => BooksOf(items[o1]) \cap BooksOf(items[o2]) = {}
    /\ \A o \in Placed : \A b \in Books : Demand(items[o], b) <= initStock[b]

\* C14: orders that reserve against pairwise disjoint sets of books, each
\* satisfiable on its own, all succeed: none meets insufficient stock, and
\* the stock of every book is the stock at start minus the demand of the
\* orders reserved so far, in whatever order the messages are handled.
C14_DisjointSucceed ==
    DisjointSatisfiable =>
        /\ \A o \in Placed : reserved[o] \in {"none", "reserved"}
        /\ \A b \in Books :
             stock[b] = initStock[b]
                        - Sum([o \in Orders |-> IF reserved[o] = "reserved"
                                                THEN Demand(items[o], b) ELSE 0],
                              Orders)

C14_Witness ==
    /\ DisjointSatisfiable
    /\ Cardinality(Placed) = MaxRequests
    /\ \A o \in Placed : reserved[o] = "reserved" /\ Finished(o)
    /\ \E b1, b2 \in Books : b1 # b2 /\ stock[b1] < initStock[b1] /\ stock[b2] < initStock[b2]

\* C15: every committed change of an order's status is followed by a status
\* event that carries the status just committed: the event the Order
\* Processor sends after its commit carries PROCESSING, the one the
\* Inventory Reservation Manager sends after a commit that changed the
\* status carries the reservation outcome, and the two of the Shipping
\* Coordinator carry SHIPPED and the final status.
C15_EventCarriesCommitted ==
    [][/\ (op.pc = "notify" /\ op'.pc = "idle")
          => events'[op.o] = Append(events[op.o], PROCESSING)
       /\ (inv.pc = "notify" /\ inv'.pc = "idle")
          => LET new == IF reserved[inv.o] = "reserved" THEN PROCESSING ELSE CANCELLED
             IN inv.loaded # new => events'[inv.o] = Append(events[inv.o], new)
       /\ \A o \in Orders :
            /\ (ship[o].pc = "notify" /\ ship'[o].pc = "final")
               => events'[o] = Append(events[o], SHIPPED)
            /\ (ship[o].pc = "notify_final" /\ ship'[o].pc = "done"
                /\ ship[o].loaded # ship[o].final)
               => events'[o] = Append(events[o], ship[o].final)]_vars

\* C16: the Shipping Coordinator of an order is started only after the
\* reservation of that order has been committed successfully; for an order
\* whose reservation has not succeeded no ship_order thread exists.
C16_ShippingAfterReservation ==
    \A o \in Orders : ship[o].pc # "none" => reserved[o] = "reserved"

\* C17: when the commit of the reservation batch fails, the deductions are
\* rolled back and the order takes the failure branch: the handling leaves
\* the stock as it was, the status CANCELLED and one more status event.
C17_CommitFailureCancels ==
    [][\A o \in Orders :
         (reserved[o] # "commit_failed" /\ reserved'[o] = "commit_failed")
         => /\ stock' = stock
            /\ status'[o] = CANCELLED
            /\ Len(events'[o]) = Len(events[o]) + 1]_vars

\* C18: when a line item of the handled message names a book that does not
\* exist, the reservation fails as a whole: the handling changes no book's
\* stock, the order's status is CANCELLED once it has committed, and the
\* status event follows.
C18_MissingBookCancels ==
    [][\A o \in Orders :
         (ReservationStep(o) /\ \E i \in 1..Len(items[o]) : ~BookExists(items[o][i]))
         => /\ stock' = stock
            /\ status'[o] = CANCELLED
            /\ reserved'[o] \in {"not_found", "insufficient"}]_vars

\* C19: when persisting the new order fails, place_order answers with an
\* error, no Order row is added, nothing is published to the
\* 'order_processing' queue and no status event is emitted.
C19_IntakeStoreFailure ==
    [][Len(rejected') = Len(rejected) + 1
       => /\ rejected'[Len(rejected')] = "400"
          /\ status' = status
          /\ items' = items
          /\ orderQ' = orderQ
          /\ events' = events]_vars

C19_Witness ==
    /\ rejected = <<"400">>
    /\ Placed = {}
    /\ orderQ = <<>>
    /\ \A o \in Orders : events[o] = <<>>

\* C20: when the publish to 'order_processing' fails after the order was
\* committed, the order stays persisted with status PENDING, the PENDING
\* status event is still emitted and place_order still returns the order;
\* no later step removes the row.
C20_PublishFailureKeepsOrder ==
    [][\A o \in Orders :
         /\ (o \notin unpublished /\ o \in unpublished')
            => /\ status'[o] = PENDING
               /\ items'[o] # <<>>
               /\ events'[o] = Append(events[o], PENDING)
               /\ intake'[o] = "returned"
               /\ orderQ' = orderQ
         /\ o \in unpublished => status'[o] # NoRow]_vars

C20_Witness ==
    \E o \in Orders :
        /\ o \in unpublished
        /\ status[o] = PENDING
        /\ events[o] = <<PENDING>>
        /\ intake[o] = "returned"
        /\ ~InQueue(orderQ, o)

\* C21: when the Order Processor's commit of PROCESSING fails for a
\* message, the handling is aborted: in that step nothing is published to
\* 'inventory_update', no ship_order thread is started and no event is
\* sent; afterwards the message is not on a queue again, and neither an
\* inventory update nor a shipping of that order ever appears.
C21_ProcessorCommitFailureAborts ==
    [][/\ ( /\ op.pc = "idle" /\ orderQ # <<>> /\ orderQ' = Tail(orderQ)
            /\ OrderExists(Head(orderQ))
            /\ status'[Head(orderQ)] = status[Head(orderQ)] )
          => (op'.pc = "dead" /\ invQ' = invQ /\ ship' = ship /\ events' = events)
       /\ (op.pc = "dead" /\ op.o \in Orders)
          => /\ op' = op
             /\ ~InQueue(orderQ', op.o) /\ ~InQueue(invQ', op.o)
             /\ ship'[op.o].pc = "none"]_vars

C21_Witness ==
    /\ op.pc = "dead" /\ op.o \in Orders
    /\ status[op.o] = PENDING
    /\ ship[op.o].pc = "none"
    /\ reserved[op.o] = "none"
    /\ \E o \in Orders : o # op.o /\ Finished(o)

\* C22: SHIPPED is transient: from the commit of SHIPPED by a ship_order
\* run to that run's next status write, the only change of the order's
\* status is that write, and it sets DELIVERED or CANCELLED.
C22_ShippedTransient ==
    [][\A o \in Orders :
         (ship[o].pc \in {"notify", "final"} /\ status'[o] # status[o])
         => /\ ship[o].pc = "final" /\ ship'[o].pc = "notify_final"
            /\ status'[o] \in {DELIVERED, CANCELLED}]_vars

\* C23: only the Inventory Reservation Manager mutates stock: every step
\* of Order Intake, of the Order Processor, of the Shipping Coordinator and
\* of cancel_order leaves the stock of every book unchanged.
C23_OnlyReservationMutatesStock ==
    [][(intake' # intake \/ op' # op \/ ship' # ship \/ cancel' # cancel
        \/ ncancel' # ncancel)
       => stock' = stock]_vars

C23_Witness ==
    \E o \in Orders :
        /\ Finished(o)
        /\ response[o] = "200"
        /\ reserved[o] = "reserved"
        /\ \E b \in Books : stock[b] < initStock[b]
        /\ \A b \in Books : stock[b] = initStock[b] - Demand(items[o], b)

\* C24: no compensating restock: every step of the ship_order run of an
\* order whose stock was already deducted, the commit of CANCELLED after a
\* failed delivery included, leaves the stock at its deducted value.
C24_NoRestock ==
    [][\A o \in Orders :
         (ship'[o] # ship[o] /\ reserved[o] = "reserved")
         => stock' = stock]_vars

C24_Witness ==
    \E o \in Orders :
        /\ reserved[o] = "reserved"
        /\ ship[o].pc = "done"
        /\ ~ship[o].sent
        /\ ship[o].final = CANCELLED
        /\ status[o] = CANCELLED
        /\ \E b \in Books : Demand(items[o], b) > 0
        /\ \A b \in Books : stock[b] = initStock[b] - Demand(items[o], b)

\* The message of order o has been handed to the Order Processor.
Taken(o) == OrderExists(o) /\ ~InQueue(orderQ, o)

C26_AckOnReceiptNoRetry ==
    [][/\ (op.pc = "idle" /\ op'.pc # "idle")
          => /\ orderQ # <<>> /\ op'.o = Head(orderQ) /\ orderQ' = Tail(orderQ)
             /\ op'.o \in Orders
                => /\ ~InQueue(orderQ', op'.o)
                   /\ ship[op'.o].pc = "none"
                   /\ ~InQueue(invQ, op'.o)
                   /\ reserved[op'.o] = "none"
       /\ (inv.pc = "idle" /\ inv'.pc # "idle")
          => /\ invQ # <<>> /\ inv'.o = Head(invQ) /\ invQ' = Tail(invQ)
             /\ inv'.o \in Orders
                => /\ ~InQueue(invQ', inv'.o)
                   /\ reserved[inv'.o] = "none"
       /\ Len(orderQ') > Len(orderQ)
          => \E x \in Orders \cup {StrayId} :
               /\ orderQ' = Append(orderQ, x)
               /\ \/ x \in Orders /\ status[x] = NoRow /\ status'[x] = PENDING
                  \/ x = StrayId /\ stray' = stray + 1
       /\ Len(invQ') > Len(invQ)
          => \E x \in Orders \cup {StrayId} :
               /\ invQ' = Append(invQ, x)
               /\ \/ op.pc = "notify" /\ op.o = x /\ op'.pc = "idle"
                  \/ x = StrayId /\ stray' = stray + 1
       /\ (op.pc = "dead" => op' = op) /\ (inv.pc = "dead" => inv' = inv)]_vars

C26_Witness ==
    /\ inv.pc = "dead" /\ inv.o \in Orders
    /\ reserved[inv.o] = "insufficient"
    /\ ~InQueue(invQ, inv.o) /\ ~InQueue(orderQ, inv.o)
    /\ ship[inv.o].pc = "done"

\* The db.session.commit() calls the ship_order run of order o has made.
ShipCommits(o) ==
    CASE ship[o].pc \in {"none", "start"} -> 0
      [] ship[o].pc \in {"notify", "final"} -> 1
      [] OTHER -> 2

\* C27: one message, one commit: no stage commits more than once for one
\* message or invocation; in particular a ship_order run commits once.
C27_OneCommitPerStage == \A o \in Orders : ShipCommits(o) <= 1

\* C28: each order's stock is deducted at most once: for every book, the
\* stock at start minus the current stock is the sum, over the orders whose
\* reservation batch was committed, of the quantities they ask of that
\* book, each order counted once.
C28_DeductedOnce ==
    \A b \in Books :
        initStock[b] - stock[b]
        = Sum([o \in Orders |-> IF reserved[o] = "reserved"
                                THEN Demand(items[o], b) ELSE 0],
              Orders)

C28_Witness ==
    \E o1, o2 \in Orders : \E b \in Books :
        /\ reserved[o1] = "reserved"
        /\ reserved[o2] = "commit_failed"
        /\ Demand(items[o1], b) > 0 /\ Demand(items[o2], b) > 0
        /\ stock[b] = initStock[b] - Demand(items[o1], b)
        /\ Finished(o1) /\ Finished(o2)

\* C29: an order cancelled through cancel_order before its reservation
\* message is handled never has stock deducted: when the Inventory
\* Reservation Manager handles a message whose order it loaded as CANCELLED,
\* cancelled by cancel_order (its ship_order run has not yet chosen a final
\* status), every book's stock is left unchanged.
C29_CancelledNotDeducted ==
    [][\A o \in Orders :
         ( /\ ReservationStep(o)
           /\ inv.loaded = CANCELLED
           /\ ncancel[o] > 0
           /\ ship[o].final = NoRow )
         => stock' = stock]_vars

\* C30: no pipeline operation ever increases a book's stock, whatever the
\* quantities of the accepted order (zero and negative ones included): in
\* every step each book's stock afterwards is <= its stock before.
C30_StockNeverIncreases ==
    [][\A b \in Books : stock'[b] <= stock[b]]_vars
====
